---- MODULE Spec2Model ----
(***************************************************************************)
(* Patch-cord length calculator (cable_calculator.py).                     *)
(*                                                                         *)
(* Lengths are Python floats (IEEE 754 binary64).  A float is modelled     *)
(* exactly: its magnitude is an integer count of 2^-57 m held in three     *)
(* limbs of 24 bits <<a, b, c>> (value = (a*2^48 + b*2^24 + c) * 2^-57),   *)
(* and every arithmetic operation computes the exact result and rounds it  *)
(* to 53 significant bits, ties to even, as the hardware does.             *)
(***************************************************************************)
EXTENDS Integers, Sequences, FiniteSets, TLC

----------------------------------------------------------------------------
(* Bounds of the model *)

MaxRack == 3        \* rack indices drawn: 0..MaxRack (0 is not a valid rack)
FarRack == 40       \* and one distant rack, so that the raw length passes 20 m
UnitSlack == 1      \* units drawn: (1-UnitSlack)..(MAX_UNIT+UnitSlack)
CfgMarginCm == 20   \* the margin (cm) of the config drawn besides None
MaxLengthCm == 2100  \* lengths handed to the rounding helpers directly: 0..MaxLengthCm cm
MaxCodeNumber == 20  \* rack codes looked up end in 00..MaxCodeNumber
MaxPad == 1          \* whitespace characters around a code looked up
MaxPolls == 10       \* rounds of wait_for_api before its deadline

----------------------------------------------------------------------------
(* binary64 arithmetic *)

Base == 2^24
FracBits == 57     \* a float's magnitude counts units of 2^-57
Mantissa == 53     \* significant bits of a binary64

RECURSIVE BitLen(_)
BitLen(n) == IF n = 0 THEN 0 ELSE 1 + BitLen(n \div 2)

\* propagate carries (and borrows) between the limbs
Carry(t) ==
    LET c  == t[3] % Base
        b1 == t[2] + (t[3] \div Base)
        b  == b1 % Base
        a  == t[1] + (b1 \div Base)
    IN  <<a, b, c>>

MagZero == <<0, 0, 0>>

MagLess(x, y) ==
    \/ x[1] < y[1]
    \/ x[1] = y[1] /\ x[2] < y[2]
    \/ x[1] = y[1] /\ x[2] = y[2] /\ x[3] < y[3]

MagAdd(x, y) == Carry(<<x[1] + y[1], x[2] + y[2], x[3] + y[3]>>)

\* x - y for x >= y
MagSub(x, y) == Carry(<<x[1] - y[1], x[2] - y[2], x[3] - y[3]>>)

\* bits of the magnitude
MagBits(m) ==
    IF m[1] > 0 THEN 48 + BitLen(m[1])
    ELSE IF m[2] > 0 THEN 24 + BitLen(m[2])
    ELSE BitLen(m[3])

\* Round an exact magnitude to 53 significant bits, ties to even.
\* tail describes what lies below the last limb: 0 nothing, 1 less than
\* half a unit, 2 exactly half a unit, 3 more than half a unit.
RoundMag(m, tail) ==
    LET k == MagBits(m) - Mantissa
    IN  IF k <= 0
        THEN IF tail = 3 \/ (tail = 2 /\ m[3] % 2 = 1)
             THEN Carry(<<m[1], m[2], m[3] + 1>>)
             ELSE m
        ELSE LET unit == 2^k
                 low  == m[3] % unit
                 half == unit \div 2
                 odd  == (m[3] \div unit) % 2 = 1
                 up   == \/ low > half
                         \/ low = half /\ (tail # 0 \/ odd)
             IN  IF up
                 THEN Carry(<<m[1], m[2], m[3] - low + unit>>)
                 ELSE <<m[1], m[2], m[3] - low>>

Float(neg, mag) == [neg |-> neg /\ mag # MagZero, mag |-> mag]

FZero == Float(FALSE, MagZero)

\* float(n) / float(d) for integers n >= 0, d > 0: also the value of a
\* decimal literal n/d
FDiv(n, d) ==
    LET top == n * 2^(FracBits - 48)
        a   == top \div d
        r1  == top % d
        b   == (r1 * Base) \div d
        r2  == (r1 * Base) % d
        c   == (r2 * Base) \div d
        r3  == (r2 * Base) % d
        tail == IF r3 = 0 THEN 0
                ELSE IF 2 * r3 < d THEN 1
                ELSE IF 2 * r3 = d THEN 2 ELSE 3
    IN  Float(FALSE, RoundMag(<<a, b, c>>, tail))

\* x * float(k) for an integer k >= 0 and a float x >= 0
FMulInt(x, k) ==
    Float(x.neg, RoundMag(Carry(<<x.mag[1] * k, x.mag[2] * k, x.mag[3] * k>>), 0))

FNeg(x) == Float(~x.neg, x.mag)

FAbs(x) == Float(FALSE, x.mag)

FAdd(x, y) ==
    IF x.neg = y.neg
    THEN Float(x.neg, RoundMag(MagAdd(x.mag, y.mag), 0))
    ELSE IF MagLess(x.mag, y.mag)
         THEN Float(y.neg, RoundMag(MagSub(y.mag, x.mag), 0))
         ELSE Float(x.neg, RoundMag(MagSub(x.mag, y.mag), 0))

FSub(x, y) == FAdd(x, FNeg(y))

FLess(x, y) ==
    IF x.neg
    THEN IF y.neg THEN MagLess(y.mag, x.mag) ELSE TRUE
    ELSE IF y.neg THEN FALSE ELSE MagLess(x.mag, y.mag)

FLeq(x, y) == ~FLess(y, x)

----------------------------------------------------------------------------
(* cable_calculator.py *)

PATCH_CORD_OPTIONS_M ==
    << FDiv(10, 10), FDiv(15, 10), FDiv(20, 10), FDiv(30, 10), FDiv(50, 10),
       FDiv(75, 10), FDiv(100, 10), FDiv(150, 10), FDiv(200, 10) >>

MAX_UNIT == 50

EXCESS_THRESHOLD_M == FDiv(4, 10)

Abs(n) == IF n < 0 THEN -n ELSE n

\* UnitInRange with the top unit excluded
UnitInRangeBelowTop(unit) == 1 <= unit /\ unit < MAX_UNIT

\* the check that raises ValueError in the three unit-taking helpers
UnitInRange(unit) == 1 <= unit /\ unit <= MAX_UNIT

\* _same_rack_length_m with the buckets' upper ends excluded
_same_rack_length_m_strict(unit_a, unit_b) ==
    LET delta == Abs(unit_a - unit_b)
    IN  IF delta < 2 THEN FDiv(5, 10)
        ELSE IF delta < 8 THEN FDiv(10, 10)
        ELSE IF delta < 15 THEN FDiv(15, 10)
        ELSE IF delta < 23 THEN FDiv(20, 10)
        ELSE IF delta < 37 THEN FDiv(25, 10)
        ELSE FDiv(30, 10)

\* _same_rack_length_m without abs()
_same_rack_length_m_signed(unit_a, unit_b) ==
    LET delta == unit_a - unit_b
    IN  IF delta <= 2 THEN FDiv(5, 10)
        ELSE IF delta <= 8 THEN FDiv(10, 10)
        ELSE IF delta <= 15 THEN FDiv(15, 10)
        ELSE IF delta <= 23 THEN FDiv(20, 10)
        ELSE IF delta <= 37 THEN FDiv(25, 10)
        ELSE FDiv(30, 10)

_same_rack_length_m(unit_a, unit_b) ==
    LET delta == Abs(unit_a - unit_b)
    IN  IF delta <= 2 THEN FDiv(5, 10)
        ELSE IF delta <= 8 THEN FDiv(10, 10)
        ELSE IF delta <= 15 THEN FDiv(15, 10)
        ELSE IF delta <= 23 THEN FDiv(20, 10)
        ELSE IF delta <= 37 THEN FDiv(25, 10)
        ELSE FDiv(30, 10)

RECURSIVE RoundUpFrom(_, _)
RoundUpFrom(i, length_m) ==
    IF i > Len(PATCH_CORD_OPTIONS_M)
    THEN PATCH_CORD_OPTIONS_M[Len(PATCH_CORD_OPTIONS_M)]
    ELSE IF FLeq(length_m, PATCH_CORD_OPTIONS_M[i])
         THEN PATCH_CORD_OPTIONS_M[i]
         ELSE RoundUpFrom(i + 1, length_m)

\* _round_up_to_patch_cord returning the length itself past the last option
_round_up_unclamped(length_m) ==
    IF FLess(PATCH_CORD_OPTIONS_M[Len(PATCH_CORD_OPTIONS_M)], length_m)
    THEN length_m
    ELSE RoundUpFrom(1, length_m)

\* _round_up_to_patch_cord with the comparison turned round (opt <= length_m)
RECURSIVE RoundUpFromFlipped(_, _)
RoundUpFromFlipped(i, length_m) ==
    IF i > Len(PATCH_CORD_OPTIONS_M)
    THEN PATCH_CORD_OPTIONS_M[Len(PATCH_CORD_OPTIONS_M)]
    ELSE IF FLeq(PATCH_CORD_OPTIONS_M[i], length_m)
         THEN PATCH_CORD_OPTIONS_M[i]
         ELSE RoundUpFromFlipped(i + 1, length_m)

_round_up_flipped(length_m) == RoundUpFromFlipped(1, length_m)

\* _round_up_to_patch_cord with a strict comparison (opt > length_m)
RECURSIVE RoundUpFromStrict(_, _)
RoundUpFromStrict(i, length_m) ==
    IF i > Len(PATCH_CORD_OPTIONS_M)
    THEN PATCH_CORD_OPTIONS_M[Len(PATCH_CORD_OPTIONS_M)]
    ELSE IF FLess(length_m, PATCH_CORD_OPTIONS_M[i])
         THEN PATCH_CORD_OPTIONS_M[i]
         ELSE RoundUpFromStrict(i + 1, length_m)

_round_up_strict(length_m) == RoundUpFromStrict(1, length_m)

_round_up_to_patch_cord(length_m) == RoundUpFrom(1, length_m)

\* the loop of _round_to_nearest_patch_cord from option i on, carrying
\* <<best, best_dist>>
RECURSIVE NearestFrom(_, _, _)
NearestFrom(i, length_m, acc) ==
    IF i > Len(PATCH_CORD_OPTIONS_M)
    THEN acc[1]
    ELSE LET opt == PATCH_CORD_OPTIONS_M[i]
             d   == FAbs(FSub(opt, length_m))
         IN  IF FLess(d, acc[2]) \/ (d = acc[2] /\ FLess(acc[1], opt))
             THEN NearestFrom(i + 1, length_m, <<opt, d>>)
             ELSE NearestFrom(i + 1, length_m, acc)

\* _round_to_nearest_patch_cord without the tie rule (d < best_dist only)
RECURSIVE NearestFromNoTie(_, _, _)
NearestFromNoTie(i, length_m, acc) ==
    IF i > Len(PATCH_CORD_OPTIONS_M)
    THEN acc[1]
    ELSE LET opt == PATCH_CORD_OPTIONS_M[i]
             d   == FAbs(FSub(opt, length_m))
         IN  IF FLess(d, acc[2])
             THEN NearestFromNoTie(i + 1, length_m, <<opt, d>>)
             ELSE NearestFromNoTie(i + 1, length_m, acc)

_round_to_nearest_no_tie(length_m) ==
    LET best == PATCH_CORD_OPTIONS_M[1]
    IN  NearestFromNoTie(1, length_m, <<best, FAbs(FSub(best, length_m))>>)

_round_to_nearest_patch_cord(length_m) ==
    LET best == PATCH_CORD_OPTIONS_M[1]
    IN  NearestFrom(1, length_m, <<best, FAbs(FSub(best, length_m))>>)

_vertical_in_rack_a_m(unit_a) == FMulInt(FDiv(4, 100), MAX_UNIT - unit_a)

\* _cable_channel_m without the 100 cm allowance
_cable_channel_m_no_allowance(rack_a, rack_b) ==
    LET rack_delta == Abs(rack_b - rack_a)
    IN  IF rack_delta = 0 THEN FZero
        ELSE FDiv(rack_delta * 50, 100)

_cable_channel_m(rack_a, rack_b) ==
    LET rack_delta == Abs(rack_b - rack_a)
    IN  IF rack_delta = 0 THEN FZero
        ELSE FDiv(rack_delta * 50 + 100, 100)

_vertical_in_rack_b_m(unit_b) ==
    LET units_from_top == MAX_UNIT - unit_b
    IN  IF units_from_top <= 2 THEN FDiv(5, 10)
        ELSE FDiv(4 * units_from_top + 70 + 30, 100)

\* lines 152-164 as a function of the two locations (units in range):
\* the raw total of the call
RawTotalOf(a, b) ==
    IF a.rack = b.rack
    THEN _same_rack_length_m(a.unit, b.unit)
    ELSE FAdd(FAdd(FAdd(_vertical_in_rack_a_m(a.unit),
                        _cable_channel_m(a.rack, b.rack)),
                   _vertical_in_rack_b_m(b.unit)),
              FDiv(4, 10))

\* lines 167-173 as a function of the raw total: the recommendation
RecommendedFor(raw) ==
    LET up == _round_up_to_patch_cord(raw)
    IN  IF FLeq(EXCESS_THRESHOLD_M, FSub(up, raw))
        THEN LET short == _round_to_nearest_patch_cord(FSub(up, EXCESS_THRESHOLD_M))
             IN  IF FLeq(raw, short) THEN short ELSE up
        ELSE up

\* the exception a call with an out-of-range unit ends in (lines 58, 95, 117:
\* one message, whichever unit it was)
RaisedFor(a, b) ==
    [type |-> "ValueError", msg |-> "unit must be in 1..MAX_UNIT"]

----------------------------------------------------------------------------
(* One call into the module: calculate_patch_cord_breakdown(server_a,       *)
(* server_b, cfg), or one of the two rounding helpers on a length.         *)

VARIABLES
    server_a, server_b,     \* the two ServerLocation arguments
    cfg,                    \* the config argument: None or the margin (cm) the caller configured
    pc,                     \* position in the function body
    same_rack, vertical_a, vertical_b, horizontal, raw_total, slack_added,
    round_up,               \* recommended as first assigned (line 167)
    gap, candidate, shorter,
    recommended,
    result,                 \* the CableLengthBreakdown returned
    error,                  \* the exception raised
    length_m,               \* the argument of a rounding helper called directly
    ret                     \* and what the helper returned

\* rack_plan.get_rack_index_by_code
VARIABLES
    code,                   \* the code looked up, a sequence of characters
    code_to_info,           \* the plan: code -> RackInfo
    rack_ret                \* how the lookup ended: the index returned or the exception raised

\* web_api: POST /calculate
VARIABLES
    request,                \* the request body
    response                \* the HTTP response: status, and body or detail

\* run_app.main
VARIABLES
    launcher,               \* the launcher: position in main, polls made by wait_for_api, what it reported
    api,                    \* the API server: how it was started, its state, whether it was asked to stop
    web                     \* the web server of the front end, and whether the browser was opened

rackVars == << code, code_to_info, rack_ret >>
webVars == << request, response >>
launcherVars == << launcher, api, web >>
appVars == << rackVars, webVars, launcherVars >>

vars == << server_a, server_b, cfg, pc, same_rack, vertical_a, vertical_b,
           horizontal, raw_total, slack_added, round_up, gap, candidate,
           shorter, recommended, result, error, length_m, ret, appVars >>

Unset == [unset |-> TRUE]

\* cfg is None, or a config made for the margin (cm) the caller asked for
NoCfg == [given |-> FALSE]
ConfigFor(cm) == [given |-> TRUE, safety_slack_cm |-> cm]

Racks == (0 .. MaxRack) \cup {FarRack}
Units == (1 - UnitSlack) .. (MAX_UNIT + UnitSlack)
ServerLocation == [rack : Racks, unit : Units]
Configs == {NoCfg, ConfigFor(CfgMarginCm)}

\* one float per centimetre of 0..MaxLengthCm
Lengths == {FDiv(n, 100) : n \in 0 .. MaxLengthCm}

Init ==
    /\ \/ /\ server_a \in ServerLocation
          /\ server_b \in ServerLocation
          /\ cfg \in Configs
          /\ pc = "entry"
          /\ length_m = Unset
       \/ /\ server_a = Unset /\ server_b = Unset /\ cfg = Unset
          /\ pc \in {"round_up", "round_to_nearest"}
          /\ length_m \in Lengths
    /\ ret = Unset
    /\ same_rack = Unset /\ vertical_a = Unset /\ vertical_b = Unset
    /\ horizontal = Unset /\ raw_total = Unset /\ slack_added = Unset
    /\ round_up = Unset /\ gap = Unset /\ candidate = Unset
    /\ shorter = Unset /\ recommended = Unset
    /\ result = Unset /\ error = Unset
    /\ code = Unset /\ code_to_info = Unset
    /\ rack_ret = Unset
    /\ request = Unset /\ response = Unset
    /\ launcher = Unset /\ api = Unset /\ web = Unset

UnitError == [type |-> "ValueError", msg |-> "unit must be in 1..MAX_UNIT"]

\* SameRackPath reporting the length in both vertical segments
SameRackPathBothVertical ==
    /\ pc = "entry"
    /\ server_a.rack = server_b.rack
    /\ UnitInRange(server_a.unit) /\ UnitInRange(server_b.unit)
    /\ same_rack' = TRUE
    /\ raw_total' = _same_rack_length_m(server_a.unit, server_b.unit)
    /\ vertical_a' = raw_total'
    /\ vertical_b' = raw_total'
    /\ horizontal' = FZero
    /\ slack_added' = FZero
    /\ pc' = "round"
    /\ UNCHANGED << server_a, server_b, cfg, round_up, gap, candidate,
                    shorter, recommended, result, error,
                    length_m, ret, appVars >>

\* lines 152-159
SameRackPath ==
    /\ pc = "entry"
    /\ server_a.rack = server_b.rack
    /\ UnitInRange(server_a.unit) /\ UnitInRange(server_b.unit)
    /\ same_rack' = TRUE
    /\ raw_total' = _same_rack_length_m(server_a.unit, server_b.unit)
    /\ vertical_a' = raw_total'
    /\ vertical_b' = FZero
    /\ horizontal' = FZero
    /\ slack_added' = FZero
    /\ pc' = "round"
    /\ UNCHANGED << server_a, server_b, cfg, round_up, gap, candidate,
                    shorter, recommended, result, error,
                    length_m, ret, appVars >>

\* lines 152, 160-165
CrossRackPath ==
    /\ pc = "entry"
    /\ server_a.rack # server_b.rack
    /\ UnitInRange(server_a.unit) /\ UnitInRange(server_b.unit)
    /\ same_rack' = FALSE
    /\ vertical_a' = _vertical_in_rack_a_m(server_a.unit)
    /\ horizontal' = _cable_channel_m(server_a.rack, server_b.rack)
    /\ vertical_b' = _vertical_in_rack_b_m(server_b.unit)
    /\ raw_total' = FAdd(FAdd(FAdd(vertical_a', horizontal'), vertical_b'),
                         FDiv(4, 10))
    /\ slack_added' = FDiv(4, 10)
    /\ pc' = "round"
    /\ UNCHANGED << server_a, server_b, cfg, round_up, gap, candidate,
                    shorter, recommended, result, error,
                    length_m, ret, appVars >>

\* the ValueError of lines 57-58, 94-95 or 116-117 leaves the function
RaiseValueError ==
    /\ pc = "entry"
    /\ ~(UnitInRange(server_a.unit) /\ UnitInRange(server_b.unit))
    /\ same_rack' = (server_a.rack = server_b.rack)
    /\ error' = UnitError
    /\ pc' = "raised"
    /\ UNCHANGED << server_a, server_b, cfg, vertical_a, vertical_b,
                    horizontal, raw_total, slack_added, round_up, gap,
                    candidate, shorter, recommended, result,
                    length_m, ret, appVars >>

\* lines 167-168
RoundUp ==
    /\ pc = "round"
    /\ round_up' = _round_up_to_patch_cord(raw_total)
    /\ recommended' = round_up'
    /\ gap' = FSub(round_up', raw_total)
    /\ pc' = "shorten"
    /\ UNCHANGED << server_a, server_b, cfg, same_rack, vertical_a,
                    vertical_b, horizontal, raw_total, slack_added,
                    candidate, shorter, result, error, length_m, ret, appVars >>

CableLengthBreakdown(rec) ==
    [ same_rack |-> same_rack,
      vertical_a_m |-> vertical_a,
      vertical_b_m |-> vertical_b,
      horizontal_m |-> horizontal,
      raw_total_m |-> raw_total,
      slack_added_m |-> slack_added,
      rounded_total_m |-> rec,
      recommended_patch_cord_m |-> rec ]

\* Shorten recommending the candidate itself instead of the rounded one
ShortenToCandidate ==
    /\ pc = "shorten"
    /\ FLeq(EXCESS_THRESHOLD_M, gap)
    /\ candidate' = FSub(recommended, EXCESS_THRESHOLD_M)
    /\ shorter' = _round_to_nearest_patch_cord(candidate')
    /\ recommended' = IF FLeq(raw_total, candidate') THEN candidate' ELSE recommended
    /\ result' = CableLengthBreakdown(recommended')
    /\ pc' = "done"
    /\ UNCHANGED << server_a, server_b, cfg, same_rack, vertical_a,
                    vertical_b, horizontal, raw_total, slack_added, round_up,
                    gap, error, length_m, ret, appVars >>

\* lines 169-184, the shortening attempted
Shorten ==
    /\ pc = "shorten"
    /\ FLeq(EXCESS_THRESHOLD_M, gap)
    /\ candidate' = FSub(recommended, EXCESS_THRESHOLD_M)
    /\ shorter' = _round_to_nearest_patch_cord(candidate')
    /\ recommended' = IF FLeq(raw_total, shorter') THEN shorter' ELSE recommended
    /\ result' = CableLengthBreakdown(recommended')
    /\ pc' = "done"
    /\ UNCHANGED << server_a, server_b, cfg, same_rack, vertical_a,
                    vertical_b, horizontal, raw_total, slack_added, round_up,
                    gap, error, length_m, ret, appVars >>

\* lines 169, 175-184, the gap below the threshold
KeepRoundUp ==
    /\ pc = "shorten"
    /\ ~FLeq(EXCESS_THRESHOLD_M, gap)
    /\ result' = CableLengthBreakdown(recommended)
    /\ pc' = "done"
    /\ UNCHANGED << server_a, server_b, cfg, same_rack, vertical_a,
                    vertical_b, horizontal, raw_total, slack_added, round_up,
                    gap, candidate, shorter, recommended, error,
                    length_m, ret, appVars >>

calcVars == << server_a, server_b, cfg, same_rack, vertical_a, vertical_b,
               horizontal, raw_total, slack_added, round_up, gap, candidate,
               shorter, recommended, result, error >>

\* _round_up_to_patch_cord(length_m), lines 73-78
CallRoundUp ==
    /\ pc = "round_up"
    /\ ret' = _round_up_to_patch_cord(length_m)
    /\ pc' = "returned_up"
    /\ UNCHANGED << calcVars, length_m, appVars >>

\* _round_to_nearest_patch_cord(length_m), lines 81-89
CallRoundToNearest ==
    /\ pc = "round_to_nearest"
    /\ ret' = _round_to_nearest_patch_cord(length_m)
    /\ pc' = "returned_nearest"
    /\ UNCHANGED << calcVars, length_m, appVars >>

Next ==
    \/ CallRoundUp
    \/ CallRoundToNearest
    \/ SameRackPath
    \/ CrossRackPath
    \/ RaiseValueError
    \/ RoundUp
    \/ Shorten
    \/ KeepRoundUp

Spec == Init /\ [][Next]_vars

----------------------------------------------------------------------------
(* rack_plan.py: the default plan and the lookup of a rack index by code.
   A code is a sequence of one-character strings. *)

RACK_CODE_START == << "0", "2", "b", "0", "3" >>
RACK_CODE_END == << "0", "2", "b", "1", "8" >>

\* characters str.strip() removes (those that occur in the codes looked up)
Whitespace == {" ", "\t"}

Digits == << "0", "1", "2", "3", "4", "5", "6", "7", "8", "9" >>
IsDigit(ch) == \E i \in 1 .. 10 : Digits[i] = ch
DigitValue(ch) == (CHOOSE i \in 1 .. 10 : Digits[i] = ch) - 1

RECURSIVE LStrip(_)
LStrip(str) ==
    IF str # << >> /\ Head(str) \in Whitespace THEN LStrip(Tail(str)) ELSE str

RECURSIVE RStrip(_)
RStrip(str) ==
    IF str # << >> /\ str[Len(str)] \in Whitespace
    THEN RStrip(SubSeq(str, 1, Len(str) - 1))
    ELSE str

\* str.strip()
Strip(str) == RStrip(LStrip(str))

\* f"{n:02d}" for 0 <= n
RECURSIVE Decimal(_)
Decimal(n) ==
    IF n < 10 THEN << Digits[n + 1] >>
    ELSE Decimal(n \div 10) \o << Digits[(n % 10) + 1] >>

Format02d(n) == IF n < 10 THEN << "0" >> \o Decimal(n) ELSE Decimal(n)

\* lines 61-80; int() of the last two characters, 0 where it raises ValueError
\* (two digits are the only form of number in the codes parsed here)
_parse_rack_code(str) ==
    LET c == Strip(str)
    IN  IF Len(c) < 4 THEN [prefix |-> c, number |-> 0]
        ELSE LET last2 == SubSeq(c, Len(c) - 1, Len(c))
             IN  [prefix |-> SubSeq(c, 1, Len(c) - 2),
                  number |-> IF IsDigit(last2[1]) /\ IsDigit(last2[2])
                             THEN 10 * DigitValue(last2[1]) + DigitValue(last2[2])
                             ELSE 0]

RackInfo(c, i) == [code |-> c, index |-> i]

\* lines 104-125: code_to_info of the default plan
generate_default_rack_plan ==
    LET prefix == _parse_rack_code(RACK_CODE_START).prefix
        start_num == _parse_rack_code(RACK_CODE_START).number
        end_num == _parse_rack_code(RACK_CODE_END).number
        CodeOf(n) == prefix \o Format02d(n)
    IN  [c \in {CodeOf(n) : n \in start_num .. end_num} |->
            LET n == CHOOSE k \in start_num .. end_num : CodeOf(k) = c
            IN  RackInfo(c, 1 + (n - start_num))]

KeyError(c) == [type |-> "KeyError", code |-> c]

\* lines 221-224 as a function: what the lookup of str in plan ends in
LookupOutcome(str, plan) ==
    LET c == Strip(str)
    IN  IF c \in DOMAIN plan
        THEN [raised |-> FALSE, value |-> plan[c].index]
        ELSE [raised |-> TRUE, value |-> KeyError(c)]

\* the codes looked up: every prefix with every two-digit number up to
\* MaxCodeNumber, an empty code and a code with a blank inside, each with up
\* to MaxPad characters of whitespace on either side
Prefixes == { << "0", "2", "b" >>, << "0", "2", "B" >>, << "0", "3", "b" >>,
              << "2", "b" >> }

CoreCodes ==
    { p \o Format02d(n) : p \in Prefixes, n \in 0 .. MaxCodeNumber }
        \cup { << >>, << "0", "2", "b", " ", "0", "3" >> }

RECURSIVE Pads(_)
Pads(k) ==
    IF k = 0 THEN { << >> }
    ELSE Pads(k - 1) \cup { << w >> \o q : w \in Whitespace, q \in Pads(k - 1) }

LookupCodes == { l \o c \o r : l \in Pads(MaxPad), c \in CoreCodes, r \in Pads(MaxPad) }

CalcIdle ==
    /\ server_a = Unset /\ server_b = Unset /\ cfg = Unset /\ pc = Unset
    /\ length_m = Unset /\ ret = Unset
    /\ same_rack = Unset /\ vertical_a = Unset /\ vertical_b = Unset
    /\ horizontal = Unset /\ raw_total = Unset /\ slack_added = Unset
    /\ round_up = Unset /\ gap = Unset /\ candidate = Unset
    /\ shorter = Unset /\ recommended = Unset
    /\ result = Unset /\ error = Unset

InitRack ==
    /\ CalcIdle
    /\ code \in LookupCodes
    /\ code_to_info = generate_default_rack_plan
    /\ rack_ret = Unset
    /\ request = Unset /\ response = Unset
    /\ launcher = Unset /\ api = Unset /\ web = Unset

\* get_rack_index_by_code looking the code up as it was given
get_rack_index_by_code_unstripped ==
    /\ rack_ret = Unset
    /\ rack_ret' = IF code \in DOMAIN code_to_info
                   THEN [raised |-> FALSE, value |-> code_to_info[code].index]
                   ELSE [raised |-> TRUE, value |-> KeyError(code)]
    /\ UNCHANGED << code, code_to_info, webVars, launcherVars >>
    /\ UNCHANGED << calcVars, pc, length_m, ret >>

\* lines 211-224
get_rack_index_by_code ==
    /\ rack_ret = Unset
    /\ rack_ret' = LookupOutcome(code, code_to_info)
    /\ UNCHANGED << code, code_to_info, webVars, launcherVars >>
    /\ UNCHANGED << calcVars, pc, length_m, ret >>

NextRack == get_rack_index_by_code

SpecRack == InitRack /\ [][NextRack]_vars

----------------------------------------------------------------------------
(* web_api.py: POST /calculate *)

\* outcomes of a call: a value returned or an exception raised
Return(v) == [raised |-> FALSE, value |-> v]
Raise(e) == [raised |-> TRUE, value |-> e]

\* the exception classes met in the handler, each with its base classes
BaseClasses(t) ==
    CASE t = "KeyError" -> {"KeyError", "LookupError", "Exception"}
      [] t = "ValueError" -> {"ValueError", "Exception"}
      [] t = "TypeError" -> {"TypeError", "Exception"}
      [] t = "HTTPException" -> {"HTTPException", "Exception"}

IsInstance(e, cls) == cls \in BaseClasses(e.type)

HTTPException(status_code, detail) ==
    [type |-> "HTTPException", status_code |-> status_code, detail |-> detail]

\* values of the keys of request.config, as parsed from JSON
JsonAbsent == [json |-> "absent"]
JsonNull == [json |-> "null"]
JsonNumber(x) == [json |-> "number", number |-> x]
JsonNumericString(x) == [json |-> "string", numeric |-> TRUE, number |-> x]
JsonText == [json |-> "string", numeric |-> FALSE]
JsonArray == [json |-> "array"]

\* dict.get(key): None for a missing key
Get(d, key) == IF d[key] = JsonAbsent THEN JsonNull ELSE d[key]

\* float(v)
ToFloat(v) ==
    IF v.json = "number" THEN Return(v.number)
    ELSE IF v.json = "string"
    THEN IF v.numeric THEN Return(v.number)
         ELSE Raise([type |-> "ValueError", msg |-> "could not convert string to float"])
    ELSE Raise([type |-> "TypeError", msg |-> "float() argument must be a string or a real number"])

\* line 154: request.config or {}
EmptyDict == [safety_slack_cm |-> JsonAbsent, cross_rack_slack_m |-> JsonAbsent]
NoConfig == [none |-> TRUE]
ConfigDict(config) == IF config = NoConfig THEN EmptyDict ELSE config

\* lines 155-166: safety_slack_cm_raw
SafetySlackCmRaw(cfg_dict) ==
    LET raw == Get(cfg_dict, "safety_slack_cm")
    IN  IF raw # JsonNull THEN Return(raw)
        ELSE LET legacy == Get(cfg_dict, "cross_rack_slack_m")
             IN  IF legacy = JsonNull THEN Return(JsonNull)
                 ELSE LET f == ToFloat(legacy)
                      IN  IF f.raised
                          THEN Raise(HTTPException(400, "cross_rack_slack_m must be a number"))
                          ELSE Return(JsonNumber(FMulInt(f.value, 100)))

\* lines 168-181: safety_slack_cm
SafetySlackCm(cfg_dict) ==
    LET raw == SafetySlackCmRaw(cfg_dict)
    IN  IF raw.raised THEN raw
        ELSE IF raw.value = JsonNull THEN Return(FDiv(40, 1))
        ELSE LET f == ToFloat(raw.value)
             IN  IF f.raised
                 THEN Raise(HTTPException(400, "safety_slack_cm must be a number"))
                 ELSE IF FLess(f.value, FZero)
                 THEN Raise(HTTPException(400, "safety_slack_cm must not be negative"))
                 ELSE f

\* cable_calculator.py lines 35-41: the dataclass declares no field, so its
\* constructor takes no keyword
DataCenterCableConfigFields == {}

DataCenterCableConfig(keywords) ==
    IF keywords \subseteq DataCenterCableConfigFields
    THEN Return([given |-> TRUE])
    ELSE Raise([type |-> "TypeError", msg |-> "unexpected keyword argument"])

\* lines 175-184: the breakdown returned for a raw total and a recommendation
BreakdownOf(a, b, raw, rec) ==
    [ same_rack |-> (a.rack = b.rack),
      vertical_a_m |-> IF a.rack = b.rack THEN raw ELSE _vertical_in_rack_a_m(a.unit),
      vertical_b_m |-> IF a.rack = b.rack THEN FZero ELSE _vertical_in_rack_b_m(b.unit),
      horizontal_m |-> IF a.rack = b.rack THEN FZero ELSE _cable_channel_m(a.rack, b.rack),
      raw_total_m |-> raw,
      slack_added_m |-> IF a.rack = b.rack THEN FZero ELSE FDiv(4, 10),
      rounded_total_m |-> rec,
      recommended_patch_cord_m |-> rec ]

Recommending(a, b, raw) == BreakdownOf(a, b, raw, RecommendedFor(raw))

\* calculate_patch_cord_breakdown as a function of its arguments
calculate_patch_cord_breakdown(a, b) ==
    IF ~UnitInRange(a.unit) \/ ~UnitInRange(b.unit)
    THEN Raise(RaisedFor(a, b))
    ELSE Return(Recommending(a, b, RawTotalOf(a, b)))

\* lines 186-197
CalculationResponse(breakdown, req) ==
    [ length_m |-> breakdown.raw_total_m,
      recommended_patch_cord_m |-> breakdown.recommended_patch_cord_m,
      same_rack |-> breakdown.same_rack,
      vertical_a_m |-> breakdown.vertical_a_m,
      vertical_b_m |-> breakdown.vertical_b_m,
      horizontal_m |-> breakdown.horizontal_m,
      raw_total_m |-> breakdown.raw_total_m,
      slack_added_m |-> breakdown.slack_added_m,
      server_a |-> req.server_a,
      server_b |-> req.server_b ]

\* lines 184-197: the response built from the breakdown, unless the
\* calculation raised
AfterCalculation(breakdown, req) ==
    IF breakdown.raised THEN breakdown
    ELSE Return(CalculationResponse(breakdown.value, req))

\* lines 183-184: the calculation on the two locations, unless the
\* constructor of the config raised
AfterConfig(config, req, rack_a_index, rack_b_index) ==
    IF config.raised THEN config
    ELSE AfterCalculation(
             calculate_patch_cord_breakdown(
                 [rack |-> rack_a_index.value, unit |-> req.server_a.unit],
                 [rack |-> rack_b_index.value, unit |-> req.server_b.unit]),
             req)

\* lines 154-183: the config built, unless reading the margin raised
AfterSafetySlack(safety_slack_cm, req, rack_a_index, rack_b_index) ==
    IF safety_slack_cm.raised THEN safety_slack_cm
    ELSE AfterConfig(DataCenterCableConfig({"safety_slack_m"}),
                     req, rack_a_index, rack_b_index)

\* lines 141-197: the body of the outer try, given how the two lookups of
\* lines 143-144 ended
TryBody(req, rack_a_index, rack_b_index) ==
    IF rack_a_index.raised
    THEN Raise(HTTPException(400, rack_a_index.value))
    ELSE IF rack_b_index.raised
    THEN Raise(HTTPException(400, rack_b_index.value))
    ELSE AfterSafetySlack(SafetySlackCm(ConfigDict(req.config)),
                          req, rack_a_index, rack_b_index)

\* lines 199-202: the except clauses of the outer try
Except(o) ==
    IF ~o.raised THEN o
    ELSE IF IsInstance(o.value, "ValueError")
    THEN Raise(HTTPException(400, o.value))
    ELSE IF IsInstance(o.value, "Exception")
    THEN Raise(HTTPException(500, [internal_error |-> o.value]))
    ELSE o

\* lines 140-202: the exception the handler ends in, or the value it returns
Handler(req, rack_a_index, rack_b_index) ==
    Except(TryBody(req, rack_a_index, rack_b_index))

\* the response the framework sends for the handler's outcome: the status of
\* the HTTPException raised, or 200 with the value returned
Sent(o) ==
    IF o.raised
    THEN [status |-> o.value.status_code, detail |-> o.value.detail]
    ELSE [status |-> 200, body |-> o.value]

\* lines 40-44: the request model admits units 1..50 only
ServerRequestValid(sr) == sr.unit >= 1 /\ sr.unit <= 50

\* 422 for a body the request model rejects, the handler's answer otherwise
ResponseTo(req, rack_a_index, rack_b_index) ==
    IF ~ServerRequestValid(req.server_a) \/ ~ServerRequestValid(req.server_b)
    THEN [status |-> 422, detail |-> "unit out of range"]
    ELSE Sent(Handler(req, rack_a_index, rack_b_index))

\* requests: codes of and outside the plan, units around the limits, and
\* configs with each kind of value under either key
RequestCodes ==
    { << "0", "2", "b" >> \o Format02d(n) : n \in {3, 7, MaxCodeNumber} }
        \cup { << " " >> \o RACK_CODE_END }

RequestUnits == {1 - UnitSlack, 1, 10, MAX_UNIT, MAX_UNIT + UnitSlack}

Centimetres == { FNeg(FDiv(5, 1)), FZero, FDiv(CfgMarginCm, 1) }
Metres == { FNeg(FDiv(5, 100)), FZero, FDiv(CfgMarginCm, 100) }

JsonValues(numbers) ==
    { JsonNumber(x) : x \in numbers } \cup { JsonNumericString(x) : x \in numbers }
        \cup { JsonText, JsonArray, JsonNull }

RequestConfigs ==
    { NoConfig, EmptyDict }
        \cup { [safety_slack_cm |-> v, cross_rack_slack_m |-> JsonAbsent] :
                  v \in JsonValues(Centimetres) }
        \cup { [safety_slack_cm |-> JsonAbsent, cross_rack_slack_m |-> v] :
                  v \in JsonValues(Metres) }
        \cup { [safety_slack_cm |-> v, cross_rack_slack_m |-> JsonText] :
                  v \in {JsonNull, JsonNumber(FZero)} }

ServerRequest == [rack_code : RequestCodes, unit : RequestUnits]

CalculationRequest ==
    [server_a : ServerRequest, server_b : ServerRequest, config : RequestConfigs]

InitWeb ==
    /\ CalcIdle
    /\ code = Unset /\ rack_ret = Unset
    /\ code_to_info = generate_default_rack_plan
    /\ request \in CalculationRequest
    /\ response = Unset
    /\ launcher = Unset /\ api = Unset /\ web = Unset

\* POST /calculate, lines 124-202
calculate_cable_length ==
    /\ response = Unset
    /\ \E rack_a_index \in {LookupOutcome(request.server_a.rack_code, code_to_info)},
          rack_b_index \in {LookupOutcome(request.server_b.rack_code, code_to_info)} :
          response' = ResponseTo(request, rack_a_index, rack_b_index)
    /\ UNCHANGED << request, rackVars, launcherVars >>
    /\ UNCHANGED << calcVars, pc, length_m, ret >>

NextWeb == calculate_cable_length

SpecWeb == InitWeb /\ [][NextWeb]_vars

----------------------------------------------------------------------------
(* run_app.py: the launcher.  The API server runs as a child process
   ("subprocess") or, in a frozen build, as a daemon thread of the launcher
   ("embedded"); it becomes reachable or exits on its own, and exits once
   asked to stop. *)

ApiModes == {"subprocess", "embedded"}

\* a daemon thread ends with the process it belongs to; a child process does not
ApiAfterLauncherExit(a) ==
    IF a.mode = "embedded" /\ a.state # "not started"
    THEN [a EXCEPT !.state = "exited"]
    ELSE a

\* terminate() (lines 177, 192, 223) or should_exit = True (lines 180, 195, 230)
AskedToStop(a) == [a EXCEPT !.stop_asked = TRUE]

\* sys.exit(1), or main returning, or a traceback
Exited(l) == [l EXCEPT !.pc = "exited"]

InitLauncher ==
    /\ CalcIdle
    /\ code = Unset /\ code_to_info = Unset /\ rack_ret = Unset
    /\ request = Unset /\ response = Unset
    /\ launcher = [pc |-> "start_api", polls |-> 0, api_reported |-> FALSE]
    /\ api \in [mode : ApiModes, state : {"not started"}, stop_asked : {FALSE}]
    /\ web = [server |-> "none", browser |-> FALSE]

LauncherUnchanged == UNCHANGED << calcVars, pc, length_m, ret, rackVars, webVars >>

\* lines 156-157: the API server is started
StartApiServer ==
    /\ launcher.pc = "start_api"
    /\ api' = [api EXCEPT !.state = "starting"]
    /\ launcher' = [launcher EXCEPT !.pc = "wait_for_api"]
    /\ UNCHANGED web
    /\ LauncherUnchanged

\* lines 101-102, 158-160: web_api.py is missing, start_api_server raises
StartApiServerFails ==
    /\ launcher.pc = "start_api"
    /\ api.mode = "subprocess"
    /\ launcher' = Exited(launcher)
    /\ UNCHANGED << api, web >>
    /\ LauncherUnchanged

\* lines 122-143: one round of the loop of wait_for_api
WaitForApiPoll ==
    /\ launcher.pc = "wait_for_api"
    /\ launcher.polls < MaxPolls
    /\ launcher' =
          IF api.state = "exited"
          THEN [launcher EXCEPT !.pc = "api_unreachable"]
          ELSE IF api.state = "listening"
          THEN [launcher EXCEPT !.pc = "start_web", !.api_reported = TRUE]
          ELSE [launcher EXCEPT !.polls = @ + 1]
    /\ UNCHANGED << api, web >>
    /\ LauncherUnchanged

\* lines 122, 145: the deadline has passed
WaitForApiTimeout ==
    /\ launcher.pc = "wait_for_api"
    /\ launcher.polls = MaxPolls
    /\ launcher' = [launcher EXCEPT !.pc = "api_unreachable"]
    /\ UNCHANGED << api, web >>
    /\ LauncherUnchanged

\* lines 164-182: the API did not come up
ApiUnreachable ==
    /\ launcher.pc = "api_unreachable"
    /\ api' = ApiAfterLauncherExit(AskedToStop(api))
    /\ launcher' = Exited(launcher)
    /\ UNCHANGED web
    /\ LauncherUnchanged

\* lines 187-188: the web server is started
StartWebServer ==
    /\ launcher.pc = "start_web"
    /\ web' = [web EXCEPT !.server = "serving"]
    /\ launcher' = [launcher EXCEPT !.pc = "open_browser"]
    /\ UNCHANGED api
    /\ LauncherUnchanged

\* lines 189-197: the web server cannot be started
StartWebServerFails ==
    /\ launcher.pc = "start_web"
    /\ api' = ApiAfterLauncherExit(AskedToStop(api))
    /\ launcher' = Exited(launcher)
    /\ UNCHANGED web
    /\ LauncherUnchanged

\* lines 200-208
OpenBrowser ==
    /\ launcher.pc = "open_browser"
    /\ web' = [web EXCEPT !.browser = TRUE]
    /\ launcher' = [launcher EXCEPT !.pc = "serving"]
    /\ UNCHANGED api
    /\ LauncherUnchanged

\* lines 210-217: the API has exited, the wait ends and main returns
ApiWaitReturns ==
    /\ launcher.pc = "serving"
    /\ api.state = "exited"
    /\ launcher' = Exited(launcher)
    /\ UNCHANGED << api, web >>
    /\ LauncherUnchanged

\* Ctrl+C while main is inside the try of lines 210-217: lines 218-231.
\* terminate, wait and kill end a child process; the join of line 231 gives
\* a thread 5 s
KeyboardInterruptServing ==
    /\ launcher.pc = "serving"
    /\ web' = [web EXCEPT !.server = "shutdown"]
    /\ \E stopped \in BOOLEAN :
          /\ (api.mode = "subprocess" => stopped)
          /\ api' = ApiAfterLauncherExit(
                       IF stopped THEN [AskedToStop(api) EXCEPT !.state = "exited"]
                       ELSE AskedToStop(api))
    /\ launcher' = Exited(launcher)
    /\ LauncherUnchanged

\* Ctrl+C while main is at lines 164, 188 or 202-203, outside any try that
\* catches KeyboardInterrupt: main ends with the traceback
KeyboardInterruptStarting ==
    /\ launcher.pc \in {"wait_for_api", "start_web", "open_browser"}
    /\ api' = ApiAfterLauncherExit(api)
    /\ launcher' = Exited(launcher)
    /\ UNCHANGED web
    /\ LauncherUnchanged

\* the API server starts listening on its port
ApiListens ==
    /\ api.state = "starting"
    /\ api' = [api EXCEPT !.state = "listening"]
    /\ UNCHANGED << launcher, web >>
    /\ LauncherUnchanged

\* the API server ends: on its own (an import error, the port taken), or
\* because it was asked to stop
ApiExits ==
    /\ api.state \in {"starting", "listening"}
    /\ api' = [api EXCEPT !.state = "exited"]
    /\ UNCHANGED << launcher, web >>
    /\ LauncherUnchanged

NextLauncher ==
    \/ StartApiServer
    \/ StartApiServerFails
    \/ WaitForApiPoll
    \/ WaitForApiTimeout
    \/ ApiUnreachable
    \/ StartWebServer
    \/ StartWebServerFails
    \/ OpenBrowser
    \/ ApiWaitReturns
    \/ KeyboardInterruptServing
    \/ KeyboardInterruptStarting
    \/ ApiListens
    \/ ApiExits

SpecLauncher == InitLauncher /\ [][NextLauncher]_vars

----------------------------------------------------------------------------
(* Vocabulary of the properties *)

\* the float nearest to n centimetres, in metres
Cm(n) == FDiv(n, 100)

Catalog == { Cm(100), Cm(150), Cm(200), Cm(300), Cm(500), Cm(750),
             Cm(1000), Cm(1500), Cm(2000) }

Returned == pc = "done"
Raised == pc = "raised"
CalcCall == pc \in {"entry", "round", "shorten", "done", "raised"}

UnitsValid == server_a.unit \in 1 .. 50 /\ server_b.unit \in 1 .. 50
RacksValid == server_a.rack >= 1 /\ server_b.rack >= 1
ValidLocations == RacksValid /\ UnitsValid
SameRack == server_a.rack = server_b.rack

\* c is the smallest catalog value >= x, the largest one when there is none
IsSmallestAtLeast(c, x) ==
    /\ c \in Catalog
    /\ IF \E d \in Catalog : FLeq(x, d)
       THEN FLeq(x, c) /\ \A d \in Catalog : FLeq(x, d) => FLeq(c, d)
       ELSE c = Cm(2000)

\* |x - y| of two floats (a float subtraction)
Dist(x, y) == FAbs(FSub(x, y))

\* c is the catalog value nearest to x, the larger of two equally near ones
IsNearestInCatalog(c, x) ==
    /\ c \in Catalog
    /\ \A d \in Catalog :
          \/ FLess(Dist(c, x), Dist(d, x))
          \/ Dist(c, x) = Dist(d, x) /\ FLeq(d, c)

----------------------------------------------------------------------------
(* C1..C10 *)

\* C1: for valid locations, on both paths, the recommended patch cord of a
\* returned breakdown is a member of the catalog
\* {1.0, 1.5, 2.0, 3.0, 5.0, 7.5, 10.0, 15.0, 20.0}.
C1_CatalogMembership ==
    (Returned /\ ValidLocations) =>
        result.recommended_patch_cord_m \in Catalog

C1_Witness ==
    /\ Returned /\ ValidLocations /\ ~SameRack
    /\ result.recommended_patch_cord_m = Cm(750)
    /\ FLess(result.raw_total_m, Cm(750))

\* C2 as stated: for valid locations in different racks the recommended cord
\* is never shorter than the raw total.
C2_RecommendedCoversRaw ==
    (Returned /\ ValidLocations /\ ~SameRack) =>
        FLeq(result.raw_total_m, result.recommended_patch_cord_m)

\* C2 amended: for valid locations in different racks the recommended cord
\* is never shorter than the raw total as long as the raw total does not
\* exceed 20.0 m; beyond that the recommendation is 20.0 m.
C2_CoversRawUpToLargest ==
    (Returned /\ ValidLocations /\ ~SameRack) =>
        IF FLeq(result.raw_total_m, Cm(2000))
        THEN FLeq(result.raw_total_m, result.recommended_patch_cord_m)
        ELSE result.recommended_patch_cord_m = Cm(2000)

C2_Witness ==
    /\ Returned /\ ValidLocations /\ ~SameRack
    /\ FLess(Cm(500), result.raw_total_m)
    /\ FLess(result.raw_total_m, result.recommended_patch_cord_m)

\* the step table of the same-rack path, as rows <<from, to, centimetres>>
StepTable ==
    { <<0, 2, 50>>, <<3, 8, 100>>, <<9, 15, 150>>, <<16, 23, 200>>,
      <<24, 37, 250>>, <<38, 49, 300>> }

\* C3: for valid units in the same rack the raw total is the step table
\* applied to |u1 - u2| (delta 0 treated like delta 1) and no slack is added.
C3_SameRackTable ==
    (Returned /\ SameRack /\ UnitsValid) =>
        /\ \E row \in StepTable :
              /\ Abs(server_a.unit - server_b.unit) \in row[1] .. row[2]
              /\ result.raw_total_m = Cm(row[3])
        /\ result.slack_added_m = FZero

C3_Witness ==
    /\ Returned /\ SameRack /\ UnitsValid
    /\ server_a.unit = server_b.unit
    /\ result.raw_total_m = Cm(50)

\* C4: for valid locations in different racks, verticalA is 4 cm per unit
\* below the top, horizontal is |rackB - rackA| * 50 + 100 cm, verticalB is
\* 50 cm within two units of the top and 4 cm per unit + 100 cm otherwise,
\* and the raw total is their sum plus 40 cm.
C4_CrossRackFormula ==
    (Returned /\ ValidLocations /\ ~SameRack) =>
        LET va == 4 * (50 - server_a.unit)
            h  == Abs(server_b.rack - server_a.rack) * 50 + 100
            vb == IF 50 - server_b.unit <= 2 THEN 50
                  ELSE 4 * (50 - server_b.unit) + 100
        IN  /\ result.vertical_a_m = Cm(va)
            /\ result.horizontal_m = Cm(h)
            /\ result.vertical_b_m = Cm(vb)
            /\ result.raw_total_m = Cm(va + h + vb + 40)

\* C5: the call fails with the invalid-unit error and returns no breakdown
\* whenever a unit is outside 1..50, on either path, and it does not fail
\* for units within 1..50.
C5_UnitRangeChecked ==
    CalcCall =>
        /\ ~UnitsValid => (pc \in {"entry", "raised"} /\ result = Unset)
        /\ Raised => (error.type = "ValueError" /\ result = Unset)
        /\ UnitsValid => (~Raised /\ error = Unset)
        /\ Returned => (result # Unset /\ error = Unset)

C5_Witness ==
    /\ Raised /\ ~SameRack
    /\ server_a.unit = 50 /\ server_b.unit = 51

\* C6: the call never returns a breakdown when a rack is zero or negative.
C6_NonPositiveRackRejected ==
    (CalcCall /\ ~RacksValid) => (~Returned /\ result = Unset)

\* the margin a config stands for, in centimetres
ConfiguredMarginCm == IF cfg.given THEN cfg.safety_slack_cm ELSE 40

\* C7: on the cross-rack path the slack added is the margin of the config
\* passed in (0.40 m without one), and it is in the raw total once.
C7_ConfiguredMarginUsed ==
    (Returned /\ ~SameRack) =>
        /\ result.slack_added_m = Cm(ConfiguredMarginCm)
        /\ result.raw_total_m =
              FAdd(FAdd(FAdd(result.vertical_a_m, result.horizontal_m),
                        result.vertical_b_m), Cm(ConfiguredMarginCm))

\* C8: rounding up gives the smallest catalog value >= L, and 20.0 when L
\* exceeds 20.0; a raw total that is a catalog value is recommended as is.
C8_RoundUpIsSmallestAtLeast ==
    /\ pc = "returned_up" => IsSmallestAtLeast(ret, length_m)
    /\ pc \in {"shorten", "done"} => IsSmallestAtLeast(round_up, raw_total)
    /\ (Returned /\ raw_total \in Catalog) =>
          result.recommended_patch_cord_m = raw_total

C8_Witness ==
    /\ pc = "returned_up"
    /\ FLess(Cm(2000), length_m)
    /\ ret = Cm(2000)

\* C9: with a gap of at least 0.40 m between the round-up value and the raw
\* total, (round-up - 0.40) is rounded to the nearest catalog value, ties to
\* the larger, and that value is recommended only if it is >= the raw total;
\* otherwise the round-up value is recommended.  The 0.40 m is fixed.
C9_ShorteningRule ==
    /\ pc = "returned_nearest" => IsNearestInCatalog(ret, length_m)
    /\ Returned =>
          IF FLeq(Cm(40), FSub(round_up, raw_total))
          THEN /\ candidate = FSub(round_up, Cm(40))
               /\ IsNearestInCatalog(shorter, candidate)
               /\ result.recommended_patch_cord_m =
                     IF FLeq(raw_total, shorter) THEN shorter ELSE round_up
          ELSE /\ shorter = Unset
               /\ result.recommended_patch_cord_m = round_up

C9_Witness ==
    /\ Returned /\ ~SameRack /\ cfg.given
    /\ FLeq(Cm(40), gap)
    /\ shorter = Cm(750)
    /\ result.recommended_patch_cord_m = shorter

\* C10 as stated: same rack, units one apart: raw total 0.5 m and
\* recommended patch cord 0.5 m.
C10_AdjacentUnitsHalfMetre ==
    (Returned /\ SameRack /\ Abs(server_a.unit - server_b.unit) = 1) =>
        /\ result.raw_total_m = Cm(50)
        /\ result.recommended_patch_cord_m = Cm(50)

\* C10 amended: same rack, units one apart: raw total 0.5 m and recommended
\* patch cord 1.0 m, the smallest length of the catalog.
C10_AdjacentUnitsOneMetre ==
    (Returned /\ SameRack /\ Abs(server_a.unit - server_b.unit) = 1) =>
        /\ result.raw_total_m = Cm(50)
        /\ result.recommended_patch_cord_m = Cm(100)

C10_Witness ==
    /\ Returned /\ SameRack
    /\ server_a.unit = 1 /\ server_b.unit = 2
    /\ result.recommended_patch_cord_m = Cm(100)

----------------------------------------------------------------------------
(* C11..C20 *)

\* C11: with the units held fixed, the raw total at a larger rack distance
\* (distance 0, the same-rack path, included) is never smaller than at a
\* smaller one.
C11_MonotoneInRackDistance ==
    (Returned /\ ValidLocations) =>
        \A r \in Racks :
            (r >= 1 /\ Abs(server_a.rack - r) <= Abs(server_a.rack - server_b.rack))
                => FLeq(RawTotalOf(server_a, [rack |-> r, unit |-> server_b.unit]),
                        result.raw_total_m)

C11_Witness ==
    /\ Returned /\ ValidLocations
    /\ server_a.rack = 1 /\ server_b.rack = 2
    /\ server_a.unit = 26 /\ server_b.unit = 50
    /\ FLess(RawTotalOf(server_a, [rack |-> 1, unit |-> 50]), result.raw_total_m)

\* C12: the error raised for an invalid unit of A differs from the error
\* raised for an invalid unit of B, on both paths.
C12_ErrorNamesLocation ==
    (Raised /\ ~UnitInRange(server_a.unit) /\ UnitInRange(server_b.unit)) =>
        error # RaisedFor(server_b, server_a)

\* C18: the shortening step never changes the outcome: the recommendation
\* returned is the plain round-up of the raw total, and so it is for every
\* length of the grid.
C18_ShorteningChangesNothing ==
    /\ Returned =>
          /\ result.recommended_patch_cord_m = round_up
          /\ IsSmallestAtLeast(round_up, raw_total)
    /\ pc = "returned_up" => RecommendedFor(length_m) = ret

C18_Witness ==
    /\ Returned /\ SameRack
    /\ FLeq(Cm(40), gap)
    /\ raw_total = Cm(250)
    /\ shorter = Cm(300)
    /\ result.recommended_patch_cord_m = Cm(300)

\* C19 as stated: swapping the two locations changes neither the raw total
\* nor the recommendation, on either path.
C19_EndpointOrderIrrelevant ==
    (Returned /\ ValidLocations) =>
        /\ result.raw_total_m = RawTotalOf(server_b, server_a)
        /\ result.recommended_patch_cord_m =
              RecommendedFor(RawTotalOf(server_b, server_a))

\* C19 amended: for valid locations in the same rack, swapping the two
\* locations changes neither the raw total nor the recommendation.
C19_SameRackOrderIrrelevant ==
    (Returned /\ ValidLocations /\ SameRack) =>
        /\ result.raw_total_m = RawTotalOf(server_b, server_a)
        /\ result.recommended_patch_cord_m =
              RecommendedFor(RawTotalOf(server_b, server_a))

C19_Witness ==
    /\ Returned /\ ValidLocations /\ SameRack
    /\ server_a.unit = 3 /\ server_b.unit = 50
    /\ result.raw_total_m = Cm(300)

\* C20: in every breakdown returned the raw total is verticalA + horizontal
\* + verticalB + slackAdded, none of the five is negative, sameRack says
\* whether the racks are equal, horizontal is 0 exactly when they are, and
\* on the same-rack path verticalA is the whole length and verticalB is 0.
C20_BreakdownConsistent ==
    Returned =>
        /\ result.raw_total_m =
              FAdd(FAdd(FAdd(result.vertical_a_m, result.horizontal_m),
                        result.vertical_b_m), result.slack_added_m)
        /\ \A x \in { result.vertical_a_m, result.horizontal_m,
                      result.vertical_b_m, result.slack_added_m,
                      result.raw_total_m } : FLeq(FZero, x)
        /\ result.same_rack = (server_a.rack = server_b.rack)
        /\ (result.horizontal_m = FZero) = result.same_rack
        /\ result.same_rack =>
              /\ result.vertical_a_m = result.raw_total_m
              /\ result.vertical_b_m = FZero

C20_Witness ==
    /\ Returned /\ ~SameRack
    /\ result.vertical_a_m = FZero
    /\ FLess(FZero, result.horizontal_m)
    /\ result.slack_added_m = Cm(40)

\* the codes of the default plan, 02b03 .. 02b18 written out
DefaultCodeNumbers == 3 .. 18
DefaultCode(n) ==
    << "0", "2", "b" >> \o
        << Digits[(n \div 10) + 1], Digits[(n % 10) + 1] >>

\* core is str without the whitespace around it
IsTrimOf(core, str) ==
    \E i \in 1 .. Len(str) + 1 : \E j \in 0 .. Len(str) :
        /\ core = SubSeq(str, i, j)
        /\ \A k \in 1 .. Len(str) : (k < i \/ k > j) => str[k] \in Whitespace
        /\ core # << >> => (core[1] \notin Whitespace /\ core[Len(core)] \notin Whitespace)

LookupDone == rack_ret # Unset

\* C14: the lookup returns the index of every code of the plan, whitespace
\* around the code ignored, and fails with the unknown-code error for every
\* other code, never returning a default; the default plan maps 02b03..02b18
\* onto 1..16 in the order of the codes.
C14_LookupByCode ==
    LookupDone =>
        /\ DOMAIN code_to_info = { DefaultCode(n) : n \in DefaultCodeNumbers }
        /\ \A n \in DefaultCodeNumbers : code_to_info[DefaultCode(n)].index = n - 2
        /\ \A n \in DefaultCodeNumbers :
              IsTrimOf(DefaultCode(n), code) =>
                  ~rack_ret.raised /\ rack_ret.value = n - 2
        /\ (\A n \in DefaultCodeNumbers : ~IsTrimOf(DefaultCode(n), code)) =>
              /\ rack_ret.raised
              /\ rack_ret.value.type = "KeyError"

C14_Witness ==
    /\ LookupDone
    /\ code = << " " >> \o DefaultCode(18) \o << "\t" >>
    /\ rack_ret = [raised |-> FALSE, value |-> 16]

CodeInPlan(c) == \E n \in DefaultCodeNumbers : IsTrimOf(DefaultCode(n), c)

Answered == response # Unset

UnitsAccepted ==
    /\ request.server_a.unit \in 1 .. 50
    /\ request.server_b.unit \in 1 .. 50

IsNumeric(v) == v.json = "number" \/ (v.json = "string" /\ v.numeric)

\* the config is absent, or gives a non-negative number as safety_slack_cm
ConfigAcceptable ==
    \/ request.config = NoConfig
    \/ /\ IsNumeric(request.config.safety_slack_cm)
       /\ ~request.config.safety_slack_cm.number.neg

\* safety_slack_cm is given and is not a number or is negative, or it is not
\* given and cross_rack_slack_m is given and is not a number
ConfigRejectable ==
    /\ request.config # NoConfig
    /\ LET s == request.config.safety_slack_cm
           c == request.config.cross_rack_slack_m
       IN  \/ s.json \in {"string", "array"} /\ ~IsNumeric(s)
           \/ IsNumeric(s) /\ s.number.neg
           \/ s.json \in {"absent", "null"} /\ c.json \in {"string", "array"} /\ ~IsNumeric(c)

\* C15: a request with both rack codes in the plan, units in 1..50 and the
\* config absent or with a non-negative numeric safety_slack_cm is answered
\* 200 with the calculator's values for the racks' indexes, never 500.
C15_ValidRequestSucceeds ==
    (Answered /\ UnitsAccepted /\ ConfigAcceptable
        /\ CodeInPlan(request.server_a.rack_code)
        /\ CodeInPlan(request.server_b.rack_code)) =>
            /\ response.status = 200
            /\ LET a == [rack |-> code_to_info[Strip(request.server_a.rack_code)].index,
                         unit |-> request.server_a.unit]
                   b == [rack |-> code_to_info[Strip(request.server_b.rack_code)].index,
                         unit |-> request.server_b.unit]
               IN  /\ response.body.raw_total_m = RawTotalOf(a, b)
                   /\ response.body.recommended_patch_cord_m =
                         RecommendedFor(RawTotalOf(a, b))

\* C16: a request naming a rack code outside the plan, or giving a
\* safety_slack_cm that is not a number or is negative (or a
\* cross_rack_slack_m that is not a number), is answered 400.
C16_BadRequestAnswered400 ==
    (Answered /\ UnitsAccepted
        /\ \/ ~CodeInPlan(request.server_a.rack_code)
           \/ ~CodeInPlan(request.server_b.rack_code)
           \/ ConfigRejectable) =>
            response.status = 400

LauncherExited == launcher.pc = "exited"
ApiStarted == api.state # "not started"

\* C17: the web server is started and the browser opened only after
\* wait_for_api reported the API reachable; and whenever the launcher has
\* exited after starting the API, the API was asked to stop or has exited.
C17_ApiStoppedWithLauncher ==
    launcher # Unset =>
        /\ (web.server # "none" \/ web.browser) => launcher.api_reported
        /\ (LauncherExited /\ ApiStarted) =>
              (api.stop_asked \/ api.state = "exited")

====
